---- MODULE Spec2Model ----
(***************************************************************************)
(* A model of the spacesvm ledger bootstrap (chain.Genesis), of the        *)
(* TransferTx execution step and of the claim client's mining loop.        *)
(*                                                                         *)
(* Three specifications share the module's variables:                      *)
(*   Spec         a genesis load followed by TransferTx executions         *)
(*                against the balances the load wrote;                     *)
(*   SpecGenesis  Genesis.Verify and Genesis.Load over every shape of      *)
(*                genesis and airdrop payload;                             *)
(*   SpecMine     one call of mine() against a chain that keeps producing  *)
(*                blocks and changing its difficulty estimate.             *)
(***************************************************************************)
EXTENDS Integers, Sequences, FiniteSets, TLC

\* ------------------------------------------------------------------ bounds

\* Balances are uint64 in the source; the model keeps the unsigned width but
\* scales it down to Width bits.
Width == 2
\* Accounts 1..NumAccounts besides the zero address.
NumAccounts == 3
\* Longest custom allocation list of a genesis.
MaxCustom == 2
\* Blocks the chain produces while the miner runs (block ids 1..MaxBlocks).
MaxBlocks == 3
\* Largest graffiti the miner is followed to; the search goes on beyond it
\* with the graffiti held at this value.
MaxGraffiti == 3
\* Largest difficulty estimate the network reports; the difficulties of the
\* model's transactions stay below it, so the highest estimate is out of reach.
MaxEstimate == 4

\* The block time runs from 0 up to MaxTime.
MaxTime == 3

\* Genesis.ClaimReward and Genesis.LifelineUnitReward, in units of block time.
ClaimReward == 2

LifelineUnitReward == 1

MaxUint64 == 2^Width - 1

zeroAddress == 0
Address == 0..NumAccounts

\* Balances a genesis allocates: the edges of the unsigned range.
Amounts == {0, 1, MaxUint64}

\* Units a TransferTx moves: nothing, all but one unit, the whole range.
TransferUnits == {0, MaxUint64 - 1, MaxUint64}

\* The addresses that can sign a transaction: the zero address has no key.
Senders == 1..NumAccounts

\* --------------------------------------------------------------- variables

VARIABLES
    balances,     \* the ledger store's balance namespace: Address -> uint64
    genesis,      \* the Genesis object handed to Verify and Load
    airdropData,  \* the airdrop payload handed to Load
    phase,        \* "new" | "loaded" (Load returned nil) | "failed" (Load returned an error)
    verifyErr,    \* what Verify returned: "none" (not called) | "nil" | "ErrInvalidMagic"
    loadErr,      \* what Load returned: "none" (not called) | "nil" | an error
    writes,       \* the SetBalance calls Load made, in order: <<address, balance>>
    lastTx,       \* the last executed TransferTx with its sender, or NoTx
    pre,          \* balances at the moment the last TransferTx started executing
    txErr,        \* what the last Execute returned
    pc,           \* where mine stands: "idle" | "outer" | "currBlock" | "inner" |
                  \*   "validBlockID" | "difficultyEstimate" | "done"
    ctxErr,       \* ctx.Err() # nil: the deadline of mine's context has elapsed
    utx,          \* the transaction object mine works on: its block id and graffiti
    cbID,         \* mine's local cbID
    graffiti,     \* mine's local graffiti
    d,            \* mine's local d
    est,          \* mine's local est, the last estimate fetched (0 before any)
    ret,          \* what mine returned: [tx, err]
    head,         \* the chain's current block id
    netDifficulty,\* the network's current difficulty estimate
    validated,    \* the block id of the last validBlockID reply of true (0: none)
    estAfterValid,\* an estimate was fetched since that reply
    validatedAt,  \* the chain's current block id at that reply (0: none)
    trials,       \* the nonces tried so far for the block id cbID
    cpc,          \* where claimFunc stands: "mining" | "issueTx" | "pollCheck" |
                  \*   "pollWait" | "checkTx" | "prefixInfo" | "returned"
    claimErr,     \* what claimFunc returned: "none" (running) | "nil" | an error
    signed,       \* the bytes claimFunc signed (<<>>: none)
    sentTx,       \* the bytes of the transaction sent with issueTx (<<>>: none)
    issued,       \* the issueTx requests sent
    headAtIssue,  \* the chain's current block id when issueTx was sent (0: none)
    issueReply,   \* "none" | "failed" (request error) | "rejected" | "accepted"
    pollCtxErr,   \* the deadline of the polling context has elapsed
    lastCheckTx,  \* the last checkTx: "none" | "failed" | "unconfirmed" | "confirmed"
    infos,        \* the prefix ownership records: [prefix, owner, expiry]
    kv,           \* the key-values stored under prefixes: <<prefix, key>>
    now,          \* the block time
    lastOp        \* the last registry operation and its result

ledgerVars == <<balances, genesis, airdropData, phase, verifyErr, loadErr, writes,
                lastTx, pre, txErr>>

mineVars == <<pc, ctxErr, utx, cbID, graffiti, d, est, ret, head, netDifficulty,
              validated, estAfterValid>>

mineHist == <<validatedAt, trials>>

claimVars == <<cpc, claimErr, signed, sentTx, issued, headAtIssue, issueReply, pollCtxErr, lastCheckTx>>

registryVars == <<infos, kv, now, lastOp>>

vars == <<ledgerVars, mineVars, mineHist, claimVars, registryVars>>

\* ------------------------------------------------------------ balance store

\* An account that was never written reads as balance 0.
GetBalance(db, address) == db[address]

SetBalance(db, address, bal) == [db EXCEPT ![address] = bal]

\* Credit (add) or debit (~add) of change units; an overflow of the unsigned
\* 64-bit range in either direction is an error and writes nothing.
ModifyBalance(db, address, add, change) ==
    LET b == GetBalance(db, address)
        n == IF add THEN b + change ELSE b - change
        xflow == n > MaxUint64 \/ n < 0
    IN  IF xflow
          THEN [err |-> "ErrInvalidBalance", db |-> db]
          ELSE [err |-> "nil", db |-> SetBalance(db, address, n)]

\* --------------------------------------------------------------- TransferTx

NoTx == [Sender |-> 0, To |-> 0, Units |-> 0, run |-> FALSE]

ExecuteNoSelfCheck(db, Sender, t) ==
    IF t.To = zeroAddress THEN [err |-> "ErrNonActionable", db |-> db]
    ELSE IF t.Units = 0 THEN [err |-> "ErrNonActionable", db |-> db]
    ELSE LET debit == ModifyBalance(db, Sender, FALSE, t.Units)
         IN  IF debit.err # "nil" THEN [err |-> debit.err, db |-> debit.db]
             ELSE LET credit == ModifyBalance(debit.db, t.To, TRUE, t.Units)
                  IN  [err |-> credit.err, db |-> credit.db]

ExecuteIgnoreDebitError(db, Sender, t) ==
    IF t.To = zeroAddress THEN [err |-> "ErrNonActionable", db |-> db]
    ELSE IF t.To = Sender THEN [err |-> "ErrNonActionable", db |-> db]
    ELSE IF t.Units = 0 THEN [err |-> "ErrNonActionable", db |-> db]
    ELSE LET debit == ModifyBalance(db, Sender, FALSE, t.Units)
             credit == ModifyBalance(debit.db, t.To, TRUE, t.Units)
         IN  [err |-> debit.err, db |-> credit.db]

\* TransferTx.Execute: the three NonActionable checks, then the debit of the
\* sender, then the credit of To. An error of the credit is returned as it
\* is, with the debit already written.
Execute(db, Sender, t) ==
    IF t.To = zeroAddress THEN [err |-> "ErrNonActionable", db |-> db]
    ELSE IF t.To = Sender THEN [err |-> "ErrNonActionable", db |-> db]
    ELSE IF t.Units = 0 THEN [err |-> "ErrNonActionable", db |-> db]
    ELSE LET debit == ModifyBalance(db, Sender, FALSE, t.Units)
         IN  IF debit.err # "nil" THEN [err |-> debit.err, db |-> debit.db]
             ELSE LET credit == ModifyBalance(debit.db, t.To, TRUE, t.Units)
                  IN  IF credit.err # "nil" THEN [err |-> credit.err, db |-> credit.db]
                      ELSE [err |-> "nil", db |-> credit.db]

\* ------------------------------------------------------------------ genesis

\* The airdrop payloads (raw bytes) the model hands to Load, by content:
\* payload 1 is the JSON list [1], payload 2 the JSON list [1, 2], payload 3
\* is not JSON at all.
AirdropPayloads == {1, 2, 3}

\* json.Unmarshal(airdropData, &standardAllocation)
Unmarshal(data) ==
    CASE data = 1 -> [err |-> "nil", standardAllocation |-> <<1>>]
      [] data = 2 -> [err |-> "nil", standardAllocation |-> <<1, 2>>]
      [] OTHER    -> [err |-> "ErrJSON", standardAllocation |-> <<>>]

\* crypto.Keccak256: a digest that differs for different payloads.
Keccak256(data) == <<"keccak", data>>

\* common.BytesToHash(digest).Hex(): the digest in hex behind a "0x" prefix.
Hex(digest) == <<"0x">> \o digest

\* The AirdropHash strings of the model: the empty string (no airdrop
\* declared), the canonical hex of each payload's digest, and the digest of
\* payload 1 spelled without the "0x" prefix.
AirdropHashes == {<<>>, Keccak256(1)} \cup {Hex(Keccak256(p)) : p \in AirdropPayloads}

CustomAllocation == [Address : Address, Balance : Amounts]

SeqsUpTo(S, n) == UNION {[1..k -> S] : k \in 0..n}

Genesis ==
    [Magic : {0, 1},
     AirdropHash : AirdropHashes,
     AirdropUnits : {1, MaxUint64},
     CustomAllocation : SeqsUpTo(CustomAllocation, MaxCustom)]

VerifyAcceptsAnyMagic(g) == "nil"

\* Genesis.Verify
Verify(g) == IF g.Magic = 0 THEN "ErrInvalidMagic" ELSE "nil"

\* The SetBalance calls of the airdrop loop, in order.
AirdropWrites(g, standardAllocation) ==
    [i \in 1..Len(standardAllocation) |-> <<standardAllocation[i], g.AirdropUnits>>]

\* The SetBalance calls of the custom allocation loop, in order.
CustomWrites(g) ==
    [i \in 1..Len(g.CustomAllocation) |->
        <<g.CustomAllocation[i].Address, g.CustomAllocation[i].Balance>>]

RECURSIVE ApplyWrites(_, _)
ApplyWrites(db, ws) ==
    IF ws = <<>> THEN db
    ELSE ApplyWrites(SetBalance(db, Head(ws)[1], Head(ws)[2]), Tail(ws))

\* Load with the custom allocation loop moved ahead of the hash check.
LoadCustomBeforeHashCheck(g, data) ==
    LET declared == Len(g.AirdropHash) > 0
        h == Hex(Keccak256(data))
        parsed == Unmarshal(data)
    IN  IF declared /\ g.AirdropHash # h
          THEN [err |-> "ErrHashMismatch", writes |-> CustomWrites(g)]
        ELSE IF declared /\ parsed.err # "nil"
          THEN [err |-> parsed.err, writes |-> CustomWrites(g)]
        ELSE [err |-> "nil",
              writes |-> CustomWrites(g) \o
                         (IF declared THEN AirdropWrites(g, parsed.standardAllocation)
                                      ELSE <<>>)]

\* Load whose custom allocation loop credits on top of what the airdrop wrote.
LoadCustomAdds(g, data) ==
    LET declared == Len(g.AirdropHash) > 0
        h == Hex(Keccak256(data))
        parsed == Unmarshal(data)
        dropped == IF declared THEN {parsed.standardAllocation[i] :
                                        i \in 1..Len(parsed.standardAllocation)}
                               ELSE {}
        added == [i \in 1..Len(g.CustomAllocation) |->
                    LET c == g.CustomAllocation[i]
                    IN  <<c.Address,
                          IF c.Address \in dropped
                            THEN (g.AirdropUnits + c.Balance) % (MaxUint64 + 1)
                            ELSE c.Balance>>]
    IN  IF declared /\ g.AirdropHash # h
          THEN [err |-> "ErrHashMismatch", writes |-> <<>>]
        ELSE IF declared /\ parsed.err # "nil"
          THEN [err |-> parsed.err, writes |-> <<>>]
        ELSE [err |-> "nil",
              writes |-> (IF declared THEN AirdropWrites(g, parsed.standardAllocation)
                                      ELSE <<>>) \o added]

\* Genesis.Load: the error it returns and the SetBalance calls it made.
Load(g, data) ==
    LET declared == Len(g.AirdropHash) > 0
        h == Hex(Keccak256(data))
        parsed == Unmarshal(data)
    IN  IF declared /\ g.AirdropHash # h
          THEN [err |-> "ErrHashMismatch", writes |-> <<>>]
        ELSE IF declared /\ parsed.err # "nil"
          THEN [err |-> parsed.err, writes |-> <<>>]
        ELSE [err |-> "nil",
              writes |-> (IF declared THEN AirdropWrites(g, parsed.standardAllocation)
                                      ELSE <<>>) \o CustomWrites(g)]

\* ------------------------------------------------------------------- mining

NilTx == "nil"

\* chain.UnsignedBytes: the encoding of the fields that are mined over.
UnsignedBytes(tx) == <<tx.BlockID, tx.Graffiti>>

\* pow.Difficulty: a fixed function of the bytes, with values in 0..3, that
\* changes with the block id and with the graffiti.
Difficulty(b) == (b[1] + b[2] * (b[2] + b[1]) + 2 * b[2]) % 4

\* The validBlockID reply of the node: a block id is valid while it is the
\* current block or its parent.
ValidBlockID(blkID) == blkID >= 1 /\ blkID <= head /\ head - blkID <= 1

\* n + 1, held at MaxGraffiti: the counters of the search are followed up to
\* that value.
Bump(n) == IF n < MaxGraffiti THEN n + 1 ELSE MaxGraffiti

Return(tx, err) ==
    /\ ret' = [tx |-> tx, err |-> err]
    /\ pc' = "done"

\* claimFunc builds the transaction and the context and calls mine.
StartMine ==
    /\ pc = "idle"
    /\ pc' = "outer"
    /\ UNCHANGED <<ctxErr, utx, cbID, graffiti, d, est, ret, head, netDifficulty,
                   validated, estAfterValid>>
    /\ UNCHANGED <<ledgerVars, mineHist, claimVars, registryVars>>

MineOuterCheckIgnoresDeadline ==
    /\ pc = "outer"
    /\ pc' = "currBlock"
    /\ UNCHANGED <<ctxErr, utx, cbID, graffiti, d, est, ret, head, netDifficulty,
                   validated, estAfterValid>>
    /\ UNCHANGED <<ledgerVars, mineHist, claimVars, registryVars>>

\* for ctx.Err() == nil { ... } return nil, ctx.Err()
MineOuterCheck ==
    /\ pc = "outer"
    /\ IF ctxErr
         THEN Return(NilTx, "ErrDeadlineExceeded")
         ELSE pc' = "currBlock" /\ UNCHANGED ret
    /\ UNCHANGED <<ctxErr, utx, cbID, graffiti, d, est, head, netDifficulty,
                   validated, estAfterValid>>
    /\ UNCHANGED <<ledgerVars, mineHist, claimVars, registryVars>>

MineCurrBlockKeepsGraffiti ==
    /\ pc = "currBlock"
    /\ \E rpcOK \in BOOLEAN :
         IF ~rpcOK
           THEN /\ Return(NilTx, "ErrRPC")
                /\ UNCHANGED <<utx, cbID, trials>>
           ELSE /\ cbID' = head
                /\ utx' = [utx EXCEPT !.BlockID = head]
                /\ trials' = 0
                /\ pc' = "inner"
                /\ UNCHANGED ret
    /\ UNCHANGED <<ctxErr, graffiti, d, est, head, netDifficulty, validated,
                   estAfterValid, validatedAt>>
    /\ UNCHANGED <<ledgerVars, claimVars, registryVars>>

\* cbID, err := currBlock(requester); utx.SetBlockID(cbID); graffiti := 0
MineCurrBlock ==
    /\ pc = "currBlock"
    /\ \E rpcOK \in BOOLEAN :
         IF ~rpcOK
           THEN /\ Return(NilTx, "ErrRPC")
                /\ UNCHANGED <<utx, cbID, graffiti, trials>>
           ELSE /\ cbID' = head
                /\ utx' = [utx EXCEPT !.BlockID = head]
                /\ graffiti' = 0
                /\ trials' = 0
                /\ pc' = "inner"
                /\ UNCHANGED ret
    /\ UNCHANGED <<ctxErr, d, est, head, netDifficulty, validated, estAfterValid,
                   validatedAt>>
    /\ UNCHANGED <<ledgerVars, claimVars, registryVars>>

MineInnerCheckIgnoresDeadline ==
    /\ pc = "inner"
    /\ pc' = "validBlockID"
    /\ UNCHANGED <<ctxErr, utx, cbID, graffiti, d, est, ret, head, netDifficulty,
                   validated, estAfterValid>>
    /\ UNCHANGED <<ledgerVars, mineHist, claimVars, registryVars>>

\* for ctx.Err() == nil { ... } of the inner loop; leaving it falls through to
\* the outer loop's condition.
MineInnerCheck ==
    /\ pc = "inner"
    /\ pc' = IF ctxErr THEN "outer" ELSE "validBlockID"
    /\ UNCHANGED <<ctxErr, utx, cbID, graffiti, d, est, ret, head, netDifficulty,
                   validated, estAfterValid>>
    /\ UNCHANGED <<ledgerVars, mineHist, claimVars, registryVars>>

MineValidBlockIDIgnoresReply ==
    /\ pc = "validBlockID"
    /\ \E rpcOK \in BOOLEAN, marshalOK \in BOOLEAN :
         IF ~rpcOK
           THEN /\ Return(NilTx, "ErrRPC")
                /\ UNCHANGED <<utx, d, validated, estAfterValid, validatedAt, trials>>
         ELSE /\ utx' = [utx EXCEPT !.Graffiti = graffiti]
              /\ validated' = cbID
              /\ validatedAt' = head
              /\ estAfterValid' = FALSE
              /\ trials' = Bump(trials)
              /\ IF ~marshalOK
                   THEN Return(NilTx, "ErrMarshal") /\ UNCHANGED d
                   ELSE /\ d' = Difficulty(UnsignedBytes(utx'))
                        /\ pc' = "difficultyEstimate"
                        /\ UNCHANGED ret
    /\ UNCHANGED <<ctxErr, cbID, graffiti, est, head, netDifficulty>>
    /\ UNCHANGED <<ledgerVars, claimVars, registryVars>>

\* v, err := validBlockID(requester, cbID); on true: utx.SetGraffiti(graffiti),
\* b, err := chain.UnsignedBytes(utx), d := pow.Difficulty(b)
MineValidBlockID ==
    /\ pc = "validBlockID"
    /\ \E rpcOK \in BOOLEAN, marshalOK \in BOOLEAN :
         IF ~rpcOK
           THEN /\ Return(NilTx, "ErrRPC")
                /\ UNCHANGED <<utx, d, validated, estAfterValid, validatedAt, trials>>
         ELSE IF ~ValidBlockID(cbID)
           THEN /\ pc' = "outer"
                /\ UNCHANGED <<utx, d, ret, validated, estAfterValid, validatedAt, trials>>
         ELSE /\ utx' = [utx EXCEPT !.Graffiti = graffiti]
              /\ validated' = cbID
              /\ validatedAt' = head
              /\ estAfterValid' = FALSE
              /\ trials' = Bump(trials)
              /\ IF ~marshalOK
                   THEN Return(NilTx, "ErrMarshal") /\ UNCHANGED d
                   ELSE /\ d' = Difficulty(UnsignedBytes(utx'))
                        /\ pc' = "difficultyEstimate"
                        /\ UNCHANGED ret
    /\ UNCHANGED <<ctxErr, cbID, graffiti, est, head, netDifficulty>>
    /\ UNCHANGED <<ledgerVars, claimVars, registryVars>>

MineDifficultyEstimateOffByOne ==
    /\ pc = "difficultyEstimate"
    /\ \E rpcOK \in BOOLEAN :
         IF ~rpcOK
           THEN /\ Return(NilTx, "ErrRPC")
                /\ UNCHANGED <<est, graffiti, estAfterValid>>
           ELSE /\ est' = netDifficulty
                /\ estAfterValid' = TRUE
                /\ IF d + 1 >= est'
                     THEN Return("utx", "nil") /\ UNCHANGED graffiti
                     ELSE /\ graffiti' = Bump(graffiti)
                          /\ pc' = "inner"
                          /\ UNCHANGED ret
    /\ UNCHANGED <<ctxErr, utx, cbID, d, head, netDifficulty, validated>>
    /\ UNCHANGED <<ledgerVars, mineHist, claimVars, registryVars>>

\* est, err := difficultyEstimate(requester); if d >= est { return utx, nil };
\* graffiti++
MineDifficultyEstimate ==
    /\ pc = "difficultyEstimate"
    /\ \E rpcOK \in BOOLEAN :
         IF ~rpcOK
           THEN /\ Return(NilTx, "ErrRPC")
                /\ UNCHANGED <<est, graffiti, estAfterValid>>
           ELSE /\ est' = netDifficulty
                /\ estAfterValid' = TRUE
                /\ IF d >= est'
                     THEN Return("utx", "nil") /\ UNCHANGED graffiti
                     ELSE /\ graffiti' = Bump(graffiti)
                          /\ pc' = "inner"
                          /\ UNCHANGED ret
    /\ UNCHANGED <<ctxErr, utx, cbID, d, head, netDifficulty, validated>>
    /\ UNCHANGED <<ledgerVars, mineHist, claimVars, registryVars>>

\* The deadline of the context elapses (a timeout of 0 elapses at once).
DeadlineElapses ==
    /\ pc # "done"
    /\ ~ctxErr
    /\ ctxErr' = TRUE
    /\ UNCHANGED <<pc, utx, cbID, graffiti, d, est, ret, head, netDifficulty,
                   validated, estAfterValid>>
    /\ UNCHANGED <<ledgerVars, mineHist, claimVars, registryVars>>

\* The client is at work: mine has not returned, or claimFunc is past the
\* return of mine and has not returned itself.
ClientRunning == pc # "done" \/ cpc \notin {"mining", "returned"}

\* The chain accepts a new block while the client runs.
BlockProduced ==
    /\ ClientRunning
    /\ head < MaxBlocks
    /\ head' = head + 1
    /\ UNCHANGED <<pc, ctxErr, utx, cbID, graffiti, d, est, ret, netDifficulty,
                   validated, estAfterValid>>
    /\ UNCHANGED <<ledgerVars, mineHist, claimVars, registryVars>>

\* The network's difficulty estimate moves.
DifficultyChanges ==
    /\ ClientRunning
    /\ \E e \in 1..MaxEstimate : e # netDifficulty /\ netDifficulty' = e
    /\ UNCHANGED <<pc, ctxErr, utx, cbID, graffiti, d, est, ret, head,
                   validated, estAfterValid>>
    /\ UNCHANGED <<ledgerVars, mineHist, claimVars, registryVars>>

\* ----------------------------------------------------------------- registry

Prefixes == {"hello.avax", "hi.avax"}

Keys == {"foo"}

\* The addresses that send registry transactions.
Claimants == {1, 2}

\* The records stored for a prefix, expired ones included.
Records(P) == {r \in infos : r.prefix = P}

\* now >= expiry: the record has expired.
Expired(r) == now >= r.expiry

\* The record an operation sees for a prefix: an expired one is absent.
Lookup(P) == {r \in Records(P) : ~Expired(r)}

\* A value is retrievable under a prefix that has an unexpired record.
Retrievable(P, K) == Lookup(P) # {} /\ <<P, K>> \in kv

NoOp ==
    [op |-> "none", prefix |-> "", sender |-> 0, err |-> "nil", at |-> 0,
     prevOwner |-> 0, prevExpiry |-> 0, hadValue |-> FALSE]

\* What an operation on prefix P by sender A found and answered.
Op(op, P, A, err) ==
    [op |-> op, prefix |-> P, sender |-> A, err |-> err, at |-> now,
     prevOwner |-> IF Records(P) = {} THEN 0 ELSE (CHOOSE r \in Records(P) : TRUE).owner,
     prevExpiry |-> IF Records(P) = {} THEN 0 ELSE (CHOOSE r \in Records(P) : TRUE).expiry,
     hadValue |-> \E e \in kv : e[1] = P]

InitRegistry ==
    /\ infos = {}
    /\ kv = {}
    /\ now = 0
    /\ lastOp = NoOp

ClaimKeepsValues(P, A) ==
    /\ infos' = (infos \ Records(P)) \cup
                  {[prefix |-> P, owner |-> A, expiry |-> now + ClaimReward]}
    /\ lastOp' = Op("claim", P, A, "nil")
    /\ UNCHANGED <<kv, now>>

\* claim(prefix, claimant, now): succeeds whatever record the prefix has,
\* deletes every key-value under the prefix, and installs a record owned by
\* the claimant with expiry now + ClaimReward.
Claim(P, A) ==
    /\ infos' = (infos \ Records(P)) \cup
                  {[prefix |-> P, owner |-> A, expiry |-> now + ClaimReward]}
    /\ kv' = {e \in kv : e[1] # P}
    /\ lastOp' = Op("claim", P, A, "nil")
    /\ UNCHANGED now

SetValueIgnoresExpiry(P, K, A) ==
    /\ IF Records(P) = {}
         THEN lastOp' = Op("setValue", P, A, "ErrPrefixMissing") /\ UNCHANGED kv
       ELSE IF \A r \in Records(P) : r.owner # A
         THEN lastOp' = Op("setValue", P, A, "ErrNotOwner") /\ UNCHANGED kv
       ELSE /\ kv' = kv \cup {<<P, K>>}
            /\ lastOp' = Op("setValue", P, A, "nil")
    /\ UNCHANGED <<infos, now>>

\* A value-storage transaction: the prefix must have an unexpired record owned
\* by the sender.
SetValue(P, K, A) ==
    /\ IF Lookup(P) = {}
         THEN lastOp' = Op("setValue", P, A, "ErrPrefixMissing") /\ UNCHANGED kv
       ELSE IF \A r \in Lookup(P) : r.owner # A
         THEN lastOp' = Op("setValue", P, A, "ErrNotOwner") /\ UNCHANGED kv
       ELSE /\ kv' = kv \cup {<<P, K>>}
            /\ lastOp' = Op("setValue", P, A, "nil")
    /\ UNCHANGED <<infos, now>>

\* renew(prefix, owner, paidUnits, now) with one paid unit: extends the expiry
\* by LifelineUnitReward; NotOwner unless the caller owns the unexpired record.
Renew(P, A) ==
    /\ \A r \in Records(P) : r.expiry + LifelineUnitReward <= MaxTime + ClaimReward
    /\ IF Lookup(P) = {}
         THEN lastOp' = Op("renew", P, A, "ErrPrefixMissing") /\ UNCHANGED infos
       ELSE IF \A r \in Lookup(P) : r.owner # A
         THEN lastOp' = Op("renew", P, A, "ErrNotOwner") /\ UNCHANGED infos
       ELSE /\ infos' = (infos \ Records(P)) \cup
                 {[r EXCEPT !.expiry = r.expiry + LifelineUnitReward] : r \in Lookup(P)}
            /\ lastOp' = Op("renew", P, A, "nil")
    /\ UNCHANGED <<kv, now>>

\* ClaimTx.Execute: delegates to claim with the transaction's Prefix and Sender.
ExecuteClaim ==
    /\ \E P \in Prefixes, A \in Claimants : Claim(P, A)
    /\ UNCHANGED <<ledgerVars, mineVars, mineHist, claimVars>>

ExecuteSetValue ==
    /\ \E P \in Prefixes, K \in Keys, A \in Claimants : SetValue(P, K, A)
    /\ UNCHANGED <<ledgerVars, mineVars, mineHist, claimVars>>

ExecuteRenew ==
    /\ \E P \in Prefixes, A \in Claimants : Renew(P, A)
    /\ UNCHANGED <<ledgerVars, mineVars, mineHist, claimVars>>

\* The block time advances; no record is touched.
Tick ==
    /\ now < MaxTime
    /\ now' = now + 1
    /\ UNCHANGED <<infos, kv, lastOp>>
    /\ UNCHANGED <<ledgerVars, mineVars, mineHist, claimVars>>

\* ---------------------------------------------------------------- claimFunc

ClaimReturn(err) ==
    /\ cpc' = "returned"
    /\ claimErr' = err

ClaimSignIgnoresMineError ==
    /\ cpc = "mining"
    /\ pc = "done"
    /\ signed' = UnsignedBytes(utx)
    /\ cpc' = "issueTx"
    /\ UNCHANGED <<claimErr, sentTx, issued, headAtIssue, issueReply, pollCtxErr, lastCheckTx>>
    /\ UNCHANGED <<ledgerVars, mineVars, mineHist, registryVars>>

\* mtx, err := mine(...); cancel(); if err != nil { return err }; then
\* chain.UnsignedBytes(mtx), priv.Sign(b), chain.NewTx(mtx, sig), tx.Init()
ClaimSign ==
    /\ cpc = "mining"
    /\ pc = "done"
    /\ \E signOK \in BOOLEAN :
         IF ret.err # "nil"
           THEN ClaimReturn(ret.err) /\ UNCHANGED signed
         ELSE IF ~signOK
           THEN ClaimReturn("ErrSign") /\ UNCHANGED signed
         ELSE /\ signed' = UnsignedBytes(utx)
              /\ cpc' = "issueTx"
              /\ UNCHANGED claimErr
    /\ UNCHANGED <<sentTx, issued, headAtIssue, issueReply, pollCtxErr, lastCheckTx>>
    /\ UNCHANGED <<ledgerVars, mineVars, mineHist, registryVars>>

\* requester.SendRequest("issueTx", ...); a request error and a reply without
\* Success both end claimFunc with an error; on success the polling context
\* is made.
ClaimIssueTx ==
    /\ cpc = "issueTx"
    /\ sentTx' = signed
    /\ issued' = issued + 1
    /\ headAtIssue' = head
    /\ \E reply \in {"failed", "rejected", "accepted"} :
         /\ issueReply' = reply
         /\ CASE reply = "failed"   -> ClaimReturn("ErrIssueTx")
              [] reply = "rejected" -> ClaimReturn("ErrTxFailed")
              [] OTHER              -> cpc' = "pollCheck" /\ UNCHANGED claimErr
    /\ UNCHANGED <<signed, pollCtxErr, lastCheckTx>>
    /\ UNCHANGED <<ledgerVars, mineVars, mineHist, registryVars>>

\* for ctx.Err() == nil { ... } of the polling loop
ClaimPollCheck ==
    /\ cpc = "pollCheck"
    /\ cpc' = IF pollCtxErr THEN "prefixInfo" ELSE "pollWait"
    /\ UNCHANGED <<claimErr, signed, sentTx, issued, headAtIssue, issueReply, pollCtxErr, lastCheckTx>>
    /\ UNCHANGED <<ledgerVars, mineVars, mineHist, registryVars>>

\* select { case <-time.After(1 * time.Second): case <-ctx.Done(): break done }
ClaimPollWait ==
    /\ cpc = "pollWait"
    /\ \/ cpc' = "checkTx"
       \/ pollCtxErr /\ cpc' = "prefixInfo"
    /\ UNCHANGED <<claimErr, signed, sentTx, issued, headAtIssue, issueReply, pollCtxErr, lastCheckTx>>
    /\ UNCHANGED <<ledgerVars, mineVars, mineHist, registryVars>>

ClaimCheckTxFatal ==
    /\ cpc = "checkTx"
    /\ \E reply \in {"failed", "unconfirmed", "confirmed"} :
         /\ lastCheckTx' = reply
         /\ CASE reply = "failed"    -> ClaimReturn("ErrRPC")
              [] reply = "confirmed" -> cpc' = "prefixInfo" /\ UNCHANGED claimErr
              [] OTHER               -> cpc' = "pollCheck" /\ UNCHANGED claimErr
    /\ UNCHANGED <<signed, sentTx, issued, headAtIssue, issueReply, pollCtxErr>>
    /\ UNCHANGED <<ledgerVars, mineVars, mineHist, registryVars>>

\* requester.SendRequest("checkTx", ...): a request error is printed and the
\* reply then reads unconfirmed; a confirmed reply leaves the loop.
ClaimCheckTx ==
    /\ cpc = "checkTx"
    /\ \E reply \in {"failed", "unconfirmed", "confirmed"} :
         /\ lastCheckTx' = reply
         /\ cpc' = IF reply = "confirmed" THEN "prefixInfo" ELSE "pollCheck"
    /\ UNCHANGED <<claimErr, signed, sentTx, issued, headAtIssue, issueReply, pollCtxErr>>
    /\ UNCHANGED <<ledgerVars, mineVars, mineHist, registryVars>>

ClaimPrefixInfoSurfacesDeadline ==
    /\ cpc = "prefixInfo"
    /\ ClaimReturn(IF lastCheckTx = "confirmed" THEN "nil" ELSE "ErrDeadlineExceeded")
    /\ UNCHANGED <<signed, sentTx, issued, headAtIssue, issueReply, pollCtxErr, lastCheckTx>>
    /\ UNCHANGED <<ledgerVars, mineVars, mineHist, registryVars>>

\* if prefixInfo { client.GetPrefixInfo(...) }; return nil
ClaimPrefixInfo ==
    /\ cpc = "prefixInfo"
    /\ ClaimReturn("nil")
    /\ UNCHANGED <<signed, sentTx, issued, headAtIssue, issueReply, pollCtxErr, lastCheckTx>>
    /\ UNCHANGED <<ledgerVars, mineVars, mineHist, registryVars>>

\* The deadline of the polling context elapses.
PollDeadlineElapses ==
    /\ cpc \in {"pollCheck", "pollWait", "checkTx"}
    /\ ~pollCtxErr
    /\ pollCtxErr' = TRUE
    /\ UNCHANGED <<cpc, claimErr, signed, sentTx, issued, headAtIssue, issueReply, lastCheckTx>>
    /\ UNCHANGED <<ledgerVars, mineVars, mineHist, registryVars>>

InitClient ==
    /\ pc = "idle"
    /\ ctxErr = FALSE
    /\ utx = [BlockID |-> 0, Graffiti |-> 0]
    /\ cbID = 0
    /\ graffiti = 0
    /\ d = 0
    /\ est = 0
    /\ ret = [tx |-> NilTx, err |-> "none"]
    /\ head = 1
    /\ netDifficulty = 1
    /\ validated = 0
    /\ estAfterValid = FALSE
    /\ validatedAt = 0
    /\ trials = 0
    /\ cpc = "mining"
    /\ claimErr = "none"
    /\ signed = <<>>
    /\ sentTx = <<>>
    /\ issued = 0
    /\ headAtIssue = 0
    /\ issueReply = "none"
    /\ pollCtxErr = FALSE
    /\ lastCheckTx = "none"
    /\ InitRegistry

\* ----------------------------------------------------------- ledger actions

EmptyLedger == [a \in Address |-> 0]

\* The embedding system calls Verify on the genesis it parsed.
VerifyGenesis ==
    /\ phase = "new"
    /\ verifyErr = "none"
    /\ verifyErr' = Verify(genesis)
    /\ UNCHANGED <<balances, genesis, airdropData, phase, loadErr, writes, lastTx, pre, txErr>>
    /\ UNCHANGED <<mineVars, mineHist, claimVars, registryVars>>

\* Load runs once, on the empty ledger of a new chain.
LoadGenesis ==
    /\ phase = "new"
    /\ LET r == Load(genesis, airdropData)
       IN  /\ loadErr' = r.err
           /\ writes' = r.writes
           /\ balances' = ApplyWrites(balances, r.writes)
           /\ phase' = IF r.err = "nil" THEN "loaded" ELSE "failed"
    /\ UNCHANGED <<genesis, airdropData, verifyErr, lastTx, pre, txErr>>
    /\ UNCHANGED <<mineVars, mineHist, claimVars, registryVars>>

\* One TransferTx of a block is executed against the loaded ledger.
ExecuteTransfer ==
    /\ phase = "loaded"
    /\ \E Sender \in Senders, To \in Address, Units \in TransferUnits :
         LET t == [To |-> To, Units |-> Units]
             r == Execute(balances, Sender, t)
         IN  /\ lastTx' = [Sender |-> Sender, To |-> To, Units |-> Units, run |-> TRUE]
             /\ pre' = balances
             /\ txErr' = r.err
             /\ balances' = r.db
    /\ UNCHANGED <<genesis, airdropData, phase, verifyErr, loadErr, writes>>
    /\ UNCHANGED <<mineVars, mineHist, claimVars, registryVars>>

\* The genesis of the transfer specification: no airdrop, one custom
\* allocation per account.
FundedGenesis ==
    {g \in [Magic : {1}, AirdropHash : {<<>>}, AirdropUnits : {1},
            CustomAllocation : [1..NumAccounts -> CustomAllocation]] :
        \A i \in 1..NumAccounts : g.CustomAllocation[i].Address = i}

InitLedger ==
    /\ balances = EmptyLedger
    /\ phase = "new"
    /\ verifyErr = "none"
    /\ loadErr = "none"
    /\ writes = <<>>
    /\ lastTx = NoTx
    /\ pre = EmptyLedger
    /\ txErr = "none"

Init ==
    /\ InitLedger
    /\ InitClient
    /\ genesis \in FundedGenesis
    /\ airdropData = 3

Next == LoadGenesis \/ ExecuteTransfer

Spec == Init /\ [][Next]_vars

InitGenesis ==
    /\ InitLedger
    /\ InitClient
    /\ genesis \in Genesis
    /\ airdropData \in AirdropPayloads

NextGenesis == VerifyGenesis \/ LoadGenesis

SpecGenesis == InitGenesis /\ [][NextGenesis]_vars

InitMine ==
    /\ InitLedger
    /\ InitClient
    /\ genesis = [Magic |-> 1, AirdropHash |-> <<>>, AirdropUnits |-> 1,
                  CustomAllocation |-> <<>>]
    /\ airdropData = 3

NextMine ==
    \/ StartMine
    \/ MineOuterCheck
    \/ MineCurrBlock
    \/ MineInnerCheck
    \/ MineValidBlockID
    \/ MineDifficultyEstimate
    \/ DeadlineElapses
    \/ BlockProduced
    \/ DifficultyChanges

SpecMine == InitMine /\ [][NextMine]_vars

NextClaim ==
    \/ NextMine
    \/ ClaimSign
    \/ ClaimIssueTx
    \/ ClaimPollCheck
    \/ ClaimPollWait
    \/ ClaimCheckTx
    \/ ClaimPrefixInfo
    \/ PollDeadlineElapses

\* The whole claim operation: mine, sign, submit, poll.
SpecClaim == InitMine /\ [][NextClaim]_vars

NextRegistry ==
    \/ ExecuteClaim
    \/ ExecuteSetValue
    \/ ExecuteRenew
    \/ Tick

\* The prefix ownership registry under claims, value storage, renewals and the
\* passage of block time.
SpecRegistry == InitMine /\ [][NextRegistry]_vars

\* A step of mine itself: every query it sends returns, with a reply or with
\* an error, and the code between two queries runs.
MineStep ==
    \/ StartMine
    \/ MineOuterCheck
    \/ MineCurrBlock
    \/ MineInnerCheck
    \/ MineValidBlockID
    \/ MineDifficultyEstimate

\* mine keeps running and the deadline of its context comes.
SpecMineFair == SpecMine /\ WF_vars(MineStep) /\ WF_vars(DeadlineElapses)

\* mine under a context without a deadline.
NextMineNoDeadline == MineStep \/ BlockProduced \/ DifficultyChanges

SpecMineNoDeadline == InitMine /\ [][NextMineNoDeadline]_vars /\ WF_vars(MineStep)

\* =================================================================== claims

RECURSIVE SumOver(_, _)
SumOver(db, S) ==
    IF S = {} THEN 0
    ELSE LET a == CHOOSE x \in S : TRUE IN db[a] + SumOver(db, S \ {a})

\* The sum of all balances of a ledger.
Supply(db) == SumOver(db, Address)

\* The ledger with the debit and the credit of a transfer both applied.
Transferred(db, tx) ==
    [a \in Address |-> db[a] - (IF a = tx.Sender THEN tx.Units ELSE 0)
                             + (IF a = tx.To THEN tx.Units ELSE 0)]

NonActionable(tx) == tx.To = zeroAddress \/ tx.To = tx.Sender \/ tx.Units = 0

\* C1: a TransferTx to the zero address, to its own sender or of 0 units
\* returns ErrNonActionable and leaves every balance as it was, whatever the
\* ledger and the sender's balance.
C1_NonActionableRejected ==
    (lastTx.run /\ NonActionable(lastTx)) =>
        (txErr = "ErrNonActionable" /\ balances = pre)

\* A self-transfer the sender could pay for was executed.
C1_Witness ==
    /\ lastTx.run
    /\ lastTx.To = lastTx.Sender
    /\ lastTx.To # zeroAddress
    /\ lastTx.Units > 0
    /\ pre[lastTx.Sender] >= lastTx.Units

\* C2: after Execute returns, either the debit and the credit have both been
\* applied or neither has.
C2_ExecuteAtomic ==
    lastTx.run => (balances = pre \/ balances = Transferred(pre, lastTx))

\* C3: every balance is within the unsigned range, and a transfer of more
\* units than the sender holds fails and changes no balance.
C3_BalancesInRange ==
    /\ \A a \in Address : balances[a] \in 0..MaxUint64
    /\ (lastTx.run /\ lastTx.Units > pre[lastTx.Sender]) =>
           (txErr # "nil" /\ balances = pre)

\* An actionable transfer of more units than the sender holds was executed.
C3_Witness ==
    /\ lastTx.run
    /\ ~NonActionable(lastTx)
    /\ lastTx.Units > pre[lastTx.Sender]
    /\ txErr = "ErrInvalidBalance"

\* C4: a successful transfer moves exactly Units from the sender to To and
\* touches no other account, and the sum of all balances stays what the
\* genesis load made it, through successful and failed transfers alike.
C4_SupplyConserved ==
    /\ (lastTx.run /\ txErr = "nil") => balances = Transferred(pre, lastTx)
    /\ phase = "loaded" =>
           Supply(balances) = Supply(ApplyWrites(EmptyLedger, writes))

\* ------------------------------------------------------------ genesis claims

Declared == Len(genesis.AirdropHash) > 0

HashMatches == genesis.AirdropHash = Hex(Keccak256(airdropData))

\* The addresses listed in the airdrop payload (none when it does not parse).
PayloadAddresses ==
    LET l == Unmarshal(airdropData).standardAllocation
    IN  {l[i] : i \in 1..Len(l)}

CustomAddresses ==
    {genesis.CustomAllocation[i].Address : i \in 1..Len(genesis.CustomAllocation)}

\* The Balance of the last custom allocation entry for address a.
LastCustomBalance(a) ==
    LET idx == {i \in 1..Len(genesis.CustomAllocation) :
                   genesis.CustomAllocation[i].Address = a}
        last == CHOOSE i \in idx : \A j \in idx : j <= i
    IN  genesis.CustomAllocation[last].Balance

\* C5 as stated: Load on a genesis whose Magic is 0 fails with InvalidMagic
\* and writes no balance.
C5_LoadRejectsZeroMagic ==
    (genesis.Magic = 0 /\ loadErr # "none") =>
        (loadErr = "ErrInvalidMagic" /\ writes = <<>> /\ balances = EmptyLedger)

\* C5 amended: Verify on a genesis whose Magic is 0 fails with InvalidMagic
\* and writes no balance; Load does not look at the magic and never fails
\* with InvalidMagic.
C5_VerifyRejectsZeroMagic ==
    /\ (genesis.Magic = 0 /\ verifyErr # "none") => verifyErr = "ErrInvalidMagic"
    /\ (verifyErr # "none" /\ loadErr = "none") =>
           (writes = <<>> /\ balances = EmptyLedger)
    /\ loadErr # "ErrInvalidMagic"

\* Verify ran on a genesis of magic 0, before any load.
C5_Witness ==
    genesis.Magic = 0 /\ verifyErr = "ErrInvalidMagic" /\ loadErr = "none"

\* C6: with an AirdropHash declared, a payload of another hash makes Load
\* fail with nothing written, neither airdrop nor custom allocation; a
\* payload of the declared hash has every address it lists written with
\* AirdropUnits (and keeps that balance unless a custom allocation names it).
C6_AirdropHashChecked ==
    /\ (loadErr # "none" /\ Declared /\ ~HashMatches) =>
           (loadErr # "nil" /\ writes = <<>> /\ balances = EmptyLedger)
    /\ (loadErr # "none" /\ Declared /\ HashMatches) =>
           \A a \in PayloadAddresses :
               /\ loadErr = "nil"
               /\ \E i \in 1..Len(writes) : writes[i] = <<a, genesis.AirdropUnits>>
               /\ a \notin CustomAddresses => balances[a] = genesis.AirdropUnits

\* Load refused a payload of the wrong hash for a genesis that also carries
\* custom allocations.
C6_Witness ==
    /\ loadErr = "ErrHashMismatch"
    /\ Len(genesis.CustomAllocation) > 0
    /\ Unmarshal(airdropData).err = "nil"

\* C7 as stated: an address in both lists ends with AirdropUnits plus its
\* custom Balance.
C7_CustomAddedOnTop ==
    (loadErr = "nil" /\ Declared) =>
        \A a \in PayloadAddresses \cap CustomAddresses :
            balances[a] = genesis.AirdropUnits + LastCustomBalance(a)

\* C7 amended: an address in both lists ends with its custom Balance alone
\* (that of its last custom entry); the airdrop amount is replaced, nothing
\* is added.
C7_CustomReplacesAirdrop ==
    (loadErr = "nil" /\ Declared) =>
        \A a \in PayloadAddresses \cap CustomAddresses :
            balances[a] = LastCustomBalance(a)

\* A load succeeded for an address in both lists whose custom Balance is not
\* the airdrop amount.
C7_Witness ==
    /\ loadErr = "nil"
    /\ Declared
    /\ \E a \in PayloadAddresses \cap CustomAddresses :
           /\ LastCustomBalance(a) # genesis.AirdropUnits
           /\ LastCustomBalance(a) > 0

\* The SetBalance calls of index i; "airdrop" calls carry the airdrop amount
\* for a payload address, at the position of that address in the payload.
IsAirdropWrite(i) ==
    LET l == Unmarshal(airdropData).standardAllocation
    IN  Declared /\ i <= Len(l) /\ writes[i] = <<l[i], genesis.AirdropUnits>>

IsCustomWrite(i) ==
    LET n == Len(writes) - Len(genesis.CustomAllocation)
    IN  /\ i > n
        /\ writes[i] = <<genesis.CustomAllocation[i - n].Address,
                         genesis.CustomAllocation[i - n].Balance>>

\* C8: Load writes every airdrop entry before any custom entry, so for an
\* address in both lists the last write is a custom one and its balance is
\* the custom Balance, not the airdrop amount.
C8_AirdropBeforeCustom ==
    loadErr = "nil" =>
        /\ Len(writes) = (IF Declared THEN Len(Unmarshal(airdropData).standardAllocation)
                                      ELSE 0) + Len(genesis.CustomAllocation)
        /\ \A i \in 1..Len(writes) : IsAirdropWrite(i) \/ IsCustomWrite(i)
        /\ \A i, j \in 1..Len(writes) :
               (IsCustomWrite(i) /\ ~IsCustomWrite(j)) => j < i
        /\ \A a \in CustomAddresses :
               \E i \in 1..Len(writes) :
                   /\ IsCustomWrite(i)
                   /\ writes[i][1] = a
                   /\ \A j \in (i + 1)..Len(writes) : writes[j][1] # a
                   /\ balances[a] = writes[i][2]

\* A load succeeded that wrote two airdrop entries and then a custom entry
\* for one of the airdropped addresses.
C8_Witness ==
    /\ loadErr = "nil"
    /\ Declared
    /\ Len(Unmarshal(airdropData).standardAllocation) = 2
    /\ \E a \in PayloadAddresses \cap CustomAddresses :
           balances[a] # genesis.AirdropUnits

\* ------------------------------------------------------------- mining claims

\* C9: when mine returns a transaction, the difficulty of the bytes of that
\* transaction as returned is at least the last estimate fetched, and that
\* estimate was fetched after the last positive validity check, which was of
\* the block id the transaction carries.
C9_ReturnedTxMeetsEstimate ==
    (pc = "done" /\ ret.err = "nil") =>
        /\ ret.tx = "utx"
        /\ Difficulty(UnsignedBytes(utx)) >= est
        /\ estAfterValid
        /\ validated = utx.BlockID
        /\ utx.Graffiti = graffiti

\* mine returned a transaction found after a refetch of the block id and a
\* search past graffiti 0.
C9_Witness ==
    /\ pc = "done"
    /\ ret.err = "nil"
    /\ utx.Graffiti > 0
    /\ utx.BlockID > 1

\* C10 as stated: once the deadline has elapsed, mine never returns a
\* transaction.
C10_NoReturnAfterDeadline ==
    [][(ctxErr /\ pc # "done" /\ pc' = "done") => ret'.tx = NilTx]_vars

MineResultShape ==
    pc = "done" =>
        \/ ret.tx = "utx" /\ ret.err = "nil"
        \/ ret.tx = NilTx /\ ret.err \notin {"nil", "none"}

\* C10 amended: with the deadline elapsed, a loop-condition check of mine
\* starts no further iteration: the inner check falls through to the outer
\* one, and the outer one returns (nil, cancellation error); only the queries
\* of an iteration already past its check still run. And mine returns either
\* a transaction with a nil error or no transaction with an error.
C10_DeadlineUnwindsAtLoopChecks ==
    /\ []MineResultShape
    /\ [][(ctxErr /\ pc \in {"outer", "inner"} /\ pc' # pc) =>
              \/ pc = "inner" /\ pc' = "outer" /\ UNCHANGED <<ret, utx, graffiti>>
              \/ /\ pc = "outer"
                 /\ pc' = "done"
                 /\ ret' = [tx |-> NilTx, err |-> "ErrDeadlineExceeded"]]_vars

\* mine was cancelled in the middle of a search.
C10_Witness ==
    /\ pc = "done"
    /\ ret = [tx |-> NilTx, err |-> "ErrDeadlineExceeded"]
    /\ graffiti > 0

\* C11: after mine returns, the block id and the graffiti of the transaction
\* object the caller handed in are what they were before the call.
C11_OriginalUntouched ==
    pc = "done" => utx = [BlockID |-> 0, Graffiti |-> 0]

\* A nonce is tried: the validity check passed and the bytes go to the
\* difficulty function.
NonceTried == pc = "validBlockID" /\ pc' = "difficultyEstimate"

\* C17: the graffiti search restarts at 0 with every block id fetched; for one
\* block id the nonces tried are 0, 1, 2, ... in order (the k-th trial carries
\* graffiti k - 1); a trial follows a validity check of the chosen block id
\* that passed; and after a check that failed no nonce is tried for that id:
\* mine goes to the outer loop, from where it can only fetch a block id or
\* return.
C17_NonceOrder ==
    [][/\ (pc = "currBlock" /\ pc' = "inner") =>
              (graffiti' = 0 /\ cbID' = head /\ utx'.BlockID = head)
       /\ NonceTried =>
              /\ ValidBlockID(cbID)
              /\ utx'.BlockID = cbID
              /\ utx'.Graffiti = trials
       /\ utx' # utx => (NonceTried \/ pc = "currBlock"
                           \/ (pc = "validBlockID" /\ pc' = "done"))
       /\ (pc = "validBlockID" /\ pc' \notin {"validBlockID", "done"} /\ ~ValidBlockID(cbID))
              => (pc' = "outer" /\ utx' = utx)
       /\ (pc = "outer" /\ pc' # pc) => pc' \in {"currBlock", "done"}]_vars

\* The second nonce is being tried for a block id fetched after the first one
\* went stale.
C17_Witness ==
    /\ pc = "difficultyEstimate"
    /\ cbID > 1
    /\ utx.Graffiti = 1
    /\ trials = 2

\* C19: with every query returning and the deadline coming, mine returns.
C19_MineTerminates == <>(pc = "done")

\* mine was cancelled after a search that went as far as the model follows it
\* without meeting the estimate.
C19_Witness ==
    /\ pc = "done"
    /\ ret.err = "ErrDeadlineExceeded"
    /\ trials = MaxGraffiti
    /\ est > d

\* C12 as stated: no failed query ends the claim operation with the error of
\* that query.
C12_QueryFailureNotFatal == cpc = "returned" => claimErr # "ErrRPC"

\* C12: a failed checkTx is the one failed query the client lives through: the
\* polling loop goes on to its next round with nothing returned. A failed
\* currBlock, validBlockID or difficultyEstimate makes mine return at once with
\* no transaction, and claimFunc returns that error with nothing submitted.
C12_OnlyCheckTxFailureTolerated ==
    [][ /\ (cpc = "checkTx" /\ cpc' # cpc /\ lastCheckTx' = "failed")
             => (cpc' = "pollCheck" /\ claimErr' = "none")
        /\ (pc # "done" /\ pc' = "done" /\ ret'.err = "ErrRPC")
             => (ret'.tx = NilTx /\ pc \in {"currBlock", "validBlockID", "difficultyEstimate"})
        /\ (cpc = "mining" /\ cpc' # cpc /\ ret.err = "ErrRPC")
             => (cpc' = "returned" /\ claimErr' = "ErrRPC" /\ issued' = 0)
      ]_vars

C12_Witness ==
    /\ cpc = "pollCheck"
    /\ lastCheckTx = "failed"
    /\ ~pollCtxErr
    /\ claimErr = "none"

\* C13 as stated: the claim operation returns nil only when checkTx reported
\* the transaction confirmed.
C13_NilOnlyWhenConfirmed ==
    (cpc = "returned" /\ claimErr = "nil") => lastCheckTx = "confirmed"

\* C13: once issueTx accepted the transaction the claim operation returns nil,
\* whether checkTx confirmed it or the polling deadline elapsed first; a
\* cancellation error comes from mining alone, with nothing submitted.
C13_PollingDeadlineReturnsNil ==
    /\ (cpc = "returned" /\ issueReply = "accepted") => claimErr = "nil"
    /\ claimErr = "nil" =>
         (issueReply = "accepted" /\ (lastCheckTx = "confirmed" \/ pollCtxErr))
    /\ claimErr = "ErrDeadlineExceeded" =>
         (issued = 0 /\ ret.err = "ErrDeadlineExceeded" /\ ctxErr)

C13_Witness ==
    /\ cpc = "returned"
    /\ claimErr = "nil"
    /\ pollCtxErr
    /\ lastCheckTx = "unconfirmed"

\* C16 as stated: the block id of the transaction is valid at the moment mine
\* returns it and at the moment claimFunc submits it.
C16_NeverStale ==
    [][ /\ (pc # "done" /\ pc' = "done" /\ ret'.err = "nil")
             => ValidBlockID(utx.BlockID)
        /\ issued' = issued + 1 => ValidBlockID(signed[1])
      ]_vars

\* C16: the block id of the transaction mine returns is the one its last
\* validBlockID query found valid, at the chain's current block of that query;
\* claimFunc submits that very transaction, whatever the chain accepted since.
C16_ValidWhenLastChecked ==
    /\ (pc = "done" /\ ret.err = "nil") =>
         /\ utx.BlockID = validated
         /\ utx.BlockID >= 1
         /\ utx.BlockID <= validatedAt
         /\ validatedAt - utx.BlockID <= 1
    /\ issued > 0 =>
         /\ sentTx = UnsignedBytes(utx)
         /\ sentTx[1] = validated
         /\ headAtIssue >= validatedAt

C16_Witness ==
    /\ issued = 1
    /\ headAtIssue - sentTx[1] > 1
    /\ validatedAt - sentTx[1] <= 1
    /\ issueReply = "rejected"

\* C18: issueTx is sent at most once, with the signed bytes of the transaction
\* mine returned with a nil error; a failed or cancelled mine ends the claim
\* operation with nothing signed or sent; polling runs only after issueTx
\* accepted the transaction, and a failed or rejected issueTx ends the
\* operation with an error and no checkTx.
C18_MineSignSubmitPoll ==
    /\ issued <= 1
    /\ signed # <<>> => (pc = "done" /\ ret = [tx |-> "utx", err |-> "nil"]
                          /\ signed = UnsignedBytes(utx))
    /\ issued = 1 => (signed # <<>> /\ sentTx = signed)
    /\ cpc = "issueTx" => (issued = 0 /\ signed # <<>>)
    /\ (pc = "done" /\ ret.err # "nil") => (issued = 0 /\ cpc \in {"mining", "returned"})
    /\ (pc = "done" /\ ret.err # "nil" /\ cpc = "returned") => claimErr = ret.err
    /\ (cpc \in {"pollCheck", "pollWait", "checkTx", "prefixInfo"} \/ lastCheckTx # "none")
         => (issued = 1 /\ issueReply = "accepted")
    /\ issueReply \in {"failed", "rejected"} =>
         /\ cpc = "returned"
         /\ claimErr = (IF issueReply = "failed" THEN "ErrIssueTx" ELSE "ErrTxFailed")
         /\ lastCheckTx = "none"

C18_Witness ==
    /\ cpc = "returned"
    /\ claimErr = "nil"
    /\ issued = 1
    /\ lastCheckTx = "confirmed"
    /\ sentTx = UnsignedBytes(utx)

\* C14: a claim succeeds whatever record the prefix had, leaves the claimant
\* as the owner with expiry now + ClaimReward and no key-value under the
\* prefix; a prefix never has more than one record.
C14_ClaimEmptiesAndReassigns ==
    /\ \A P \in Prefixes : Cardinality(Records(P)) <= 1
    /\ lastOp.op = "claim" =>
         /\ lastOp.err = "nil"
         /\ Records(lastOp.prefix) =
              {[prefix |-> lastOp.prefix, owner |-> lastOp.sender,
                expiry |-> lastOp.at + ClaimReward]}
         /\ \A e \in kv : e[1] # lastOp.prefix
         /\ \A K \in Keys : ~Retrievable(lastOp.prefix, K)

C14_Witness ==
    /\ lastOp.op = "claim"
    /\ lastOp.prevOwner \notin {0, lastOp.sender}
    /\ lastOp.at < lastOp.prevExpiry
    /\ lastOp.hadValue

====
